---------------------------- MODULE Spec2Model ----------------------------
(***************************************************************************)
(* Clinic Management System (src/CMS.py): the console program's patient   *)
(* registration and appointment scheduling, with its SQLite tables.       *)
(*                                                                         *)
(* A Python str is a sequence of one-character strings.  Two characters   *)
(* outside ASCII are named: "AR1" is U+0661 ARABIC-INDIC DIGIT ONE (a     *)
(* decimal digit of value 1) and "SUP2" is U+00B2 SUPERSCRIPT TWO (a      *)
(* digit, but not a decimal digit).  "TAB" is U+0009.                      *)
(***************************************************************************)
EXTENDS Integers, Sequences, FiniteSets, TLC

VARIABLES
    patients,       \* table patients: the rows in id order (id = position)
    appointments,   \* table appointments: the rows in id order
    current_user,   \* CurrentUser of the running session, or NoUser
    ui,             \* where main() is: login | menu | schedule | again | bye | crashed
    call,           \* the last operation the UI performed and its outcome
    procs           \* concurrent sessions on the same clinic.db (SpecConc)

vars == <<patients, appointments, current_user, ui, call, procs>>

---------------------------------------------------------------------------
(* Characters and the str predicates of Python.                           *)

AsciiDigits == {"0", "1", "2", "3", "4", "5", "6", "7", "8", "9"}

\* str.isdecimal, regex \d, and what int() takes as a digit: category Nd.
IsDecimalChar(c) == c \in AsciiDigits \cup {"AR1"}

\* str.isdigit for one character: Nd, and also the digits of category No.
IsDigitChar(c) == c \in AsciiDigits \cup {"AR1", "SUP2"}

\* regex \s, and what str.strip() removes.
IsSpaceChar(c) == c \in {" ", "TAB"}

DigitValue(c) ==
    CASE c = "0" -> 0 [] c = "1" -> 1 [] c = "2" -> 2 [] c = "3" -> 3
      [] c = "4" -> 4 [] c = "5" -> 5 [] c = "6" -> 6 [] c = "7" -> 7
      [] c = "8" -> 8 [] c = "9" -> 9 [] c = "AR1" -> 1

\* str.isdigit(): non-empty and every character is a digit.
isdigit(s) == Len(s) > 0 /\ \A i \in 1..Len(s) : IsDigitChar(s[i])

RECURSIVE lstrip(_)
lstrip(s) == IF s # <<>> /\ IsSpaceChar(Head(s)) THEN lstrip(Tail(s)) ELSE s

RECURSIVE rstrip(_)
rstrip(s) ==
    IF s # <<>> /\ IsSpaceChar(s[Len(s)])
    THEN rstrip(SubSeq(s, 1, Len(s) - 1)) ELSE s

\* str.strip()
strip(s) == rstrip(lstrip(s))

---------------------------------------------------------------------------
(* int(): an arbitrary-precision integer is kept as the sequence of its   *)
(* decimal digit values without leading zeros (<<>> is 0), so that the    *)
(* magnitude of a long token is not lost.                                  *)

RECURSIVE DropLeadingZeros(_)
DropLeadingZeros(d) ==
    IF d # <<>> /\ Head(d) = 0 THEN DropLeadingZeros(Tail(d)) ELSE d

\* int(s) for s accepted by isdigit(): ValueError on a digit that is not a
\* decimal digit, the value otherwise.
int(s) ==
    IF s = <<>> \/ \E i \in 1..Len(s) : ~IsDecimalChar(s[i])
    THEN [raised |-> "ValueError", val |-> <<>>]
    ELSE [raised |-> "",
          val |-> DropLeadingZeros([i \in 1..Len(s) |-> DigitValue(s[i])])]

\* The digits of a natural number, as int() keeps them.
RECURSIVE NatDigits(_)
NatDigits(n) == IF n = 0 THEN <<>> ELSE Append(NatDigits(n \div 10), n % 10)

\* The number a short digit sequence stands for.
RECURSIVE DigitsNat(_)
DigitsNat(d) ==
    IF d = <<>> THEN 0
    ELSE 10 * DigitsNat(SubSeq(d, 1, Len(d) - 1)) + d[Len(d)]

\* sqlite3 binds a Python int as a signed 64-bit INTEGER: 2^63 - 1 at most.
SQLITE_MAX_INTEGER == <<9,2,2,3,3,7,2,0,3,6,8,5,4,7,7,5,8,0,7>>

RECURSIVE DigitsLeq(_, _)
DigitsLeq(a, b) ==   \* a <= b for digit sequences of the same length
    \/ a = <<>>
    \/ Head(a) < Head(b)
    \/ Head(a) = Head(b) /\ DigitsLeq(Tail(a), Tail(b))

FitsSqliteInteger(v) ==
    \/ Len(v) < Len(SQLITE_MAX_INTEGER)
    \/ Len(v) = Len(SQLITE_MAX_INTEGER) /\ DigitsLeq(v, SQLITE_MAX_INTEGER)

---------------------------------------------------------------------------
(* datetime.strptime(dt_str, "%Y-%m-%d %H:%M")                            *)

Sub(s, from, n) == SubSeq(s, from, from + n - 1)

D19 == AsciiDigits \ {"0"}

\* %Y: \d\d\d\d
MatchYear(f) == Len(f) = 4 /\ \A i \in 1..4 : IsDecimalChar(f[i])

\* %m: 1[0-2]|0[1-9]|[1-9]
MatchMonth(f) ==
    \/ Len(f) = 2 /\ f[1] = "1" /\ f[2] \in {"0", "1", "2"}
    \/ Len(f) = 2 /\ f[1] = "0" /\ f[2] \in D19
    \/ Len(f) = 1 /\ f[1] \in D19

\* %d: 3[0-1]|[1-2]\d|0[1-9]|[1-9]| [1-9]
MatchDay(f) ==
    \/ Len(f) = 2 /\ f[1] = "3" /\ f[2] \in {"0", "1"}
    \/ Len(f) = 2 /\ f[1] \in {"1", "2"} /\ IsDecimalChar(f[2])
    \/ Len(f) = 2 /\ f[1] = "0" /\ f[2] \in D19
    \/ Len(f) = 1 /\ f[1] \in D19
    \/ Len(f) = 2 /\ f[1] = " " /\ f[2] \in D19

\* %H: 2[0-3]|[0-1]\d|\d
MatchHour(f) ==
    \/ Len(f) = 2 /\ f[1] = "2" /\ f[2] \in {"0", "1", "2", "3"}
    \/ Len(f) = 2 /\ f[1] \in {"0", "1"} /\ IsDecimalChar(f[2])
    \/ Len(f) = 1 /\ IsDecimalChar(f[1])

\* %M: [0-5]\d|\d
MatchMinute(f) ==
    \/ Len(f) = 2 /\ f[1] \in {"0", "1", "2", "3", "4", "5"} /\ IsDecimalChar(f[2])
    \/ Len(f) = 1 /\ IsDecimalChar(f[1])

\* The ways the whole of s matches
\*   (\d\d\d\d)-(m)-(d)\s+(H):(M)
\* as the lengths <<m, d, H, M>> of its fields, the run \s+ taking what is
\* left between day and hour; strptime raises ValueError when the pattern
\* does not match or when data remains after the match.
Splits(s) ==
    IF Len(s) < 12 \/ ~MatchYear(Sub(s, 1, 4)) \/ s[5] # "-" THEN {}
    ELSE
    {l \in (1..2) \X (1..2) \X (1..2) \X (1..2) :
        LET pd == 7 + l[1]
            pw == pd + l[2]
            pM == Len(s) - l[4] + 1
            ph == pM - 1 - l[3]
        IN  /\ s[pd - 1] = "-"
            /\ s[pM - 1] = ":"
            /\ ph > pw
            /\ MatchMonth(Sub(s, 6, l[1]))
            /\ MatchDay(Sub(s, pd, l[2]))
            /\ \A i \in pw..(ph - 1) : IsSpaceChar(s[i])
            /\ MatchHour(Sub(s, ph, l[3]))
            /\ MatchMinute(Sub(s, pM, l[4]))}

\* int() of a matched field (the day may carry a leading space).
FieldValue(f) == DigitsNat(int(lstrip(f)).val)

IsLeap(y) == y % 4 = 0 /\ (y % 100 # 0 \/ y % 400 = 0)

DaysInMonth(y, m) ==
    IF m = 2 THEN (IF IsLeap(y) THEN 29 ELSE 28)
    ELSE IF m \in {4, 6, 9, 11} THEN 30 ELSE 31

\* strptime: the datetime <<year, month, day, hour, minute>> s denotes, or
\* ValueError (no match, data remaining, year 0, a day the month lacks).
strptime(s) ==
    LET sp == Splits(s)
    IN  IF sp = {} THEN [raised |-> "ValueError", value |-> <<>>]
        ELSE LET l  == CHOOSE x \in sp : TRUE
                 pd == 6 + l[1] + 1
                 pM == Len(s) - l[4] + 1
                 ph == pM - 1 - l[3]
                 y  == FieldValue(Sub(s, 1, 4))
                 m  == FieldValue(Sub(s, 6, l[1]))
                 d  == FieldValue(Sub(s, pd, l[2]))
                 H  == FieldValue(Sub(s, ph, l[3]))
                 M  == FieldValue(Sub(s, pM, l[4]))
             IN  IF y < 1 \/ d > DaysInMonth(y, m)
                 THEN [raised |-> "ValueError", value |-> <<>>]
                 ELSE [raised |-> "", value |-> <<y, m, d, H, M>>]

---------------------------------------------------------------------------
(* Outcomes of a call: a returned (success flag, message) pair, or an     *)
(* exception that nothing catches.                                         *)

Return(ok, msg) == [kind |-> "return", ok |-> ok, msg |-> msg]
Raise(exc) == [kind |-> "raise", ok |-> FALSE, msg |-> exc]
NoRet == [kind |-> "none", ok |-> FALSE, msg |-> ""]

MsgPatientId == "Patient ID must be a number."
MsgDoctorId == "Doctor ID must be a number."
MsgPatientNotFound == "Patient not found."
MsgDoctorNotFound == "Doctor not found."
MsgDateTime == "Invalid date/time format. Use: YYYY-MM-DD HH:MM"
MsgNotAvailable == "This doctor is not available at the selected time."
MsgScheduled == "Appointment scheduled successfully."

---------------------------------------------------------------------------
(* Database layer.  A table is the sequence of its rows; AUTOINCREMENT    *)
(* makes a row's id its position.  Every repository call opens its own    *)
(* connection and commits by itself.                                       *)

\* DoctorDB.seed_default_doctors: the rows of table doctors.
doctors ==
    << [name |-> "Dr. Ahmed", specialty |-> "General"],
       [name |-> "Dr. Sara", specialty |-> "Pediatrics"],
       [name |-> "Dr. Omar", specialty |-> "Dermatology"] >>

\* SELECT ... WHERE id = ?: binding an int beyond 64 bits raises
\* OverflowError; otherwise the id of the row found, or 0 (fetchone: None).
SelectById(tab, v) ==
    IF ~FitsSqliteInteger(v) THEN [raised |-> "OverflowError", id |-> 0]
    ELSE IF \E id \in 1..Len(tab) : NatDigits(id) = v
         THEN [raised |-> "", id |-> CHOOSE id \in 1..Len(tab) : NatDigits(id) = v]
         ELSE [raised |-> "", id |-> 0]

get_patient_by_id(ptab, patient_id) == SelectById(ptab, patient_id)

get_doctor_by_id(doctor_id) == SelectById(doctors, doctor_id)

\* SELECT COUNT(*) ... WHERE doctor_id = ? AND appt_datetime = ? AND
\* status = 'Scheduled': appt_datetime is TEXT, compared as written.
is_doctor_available(atab, doctor_id, appt_datetime) ==
    Cardinality({i \in 1..Len(atab) :
                    /\ atab[i].doctor_id = doctor_id
                    /\ atab[i].appt_datetime = appt_datetime
                    /\ atab[i].status = "Scheduled"}) = 0

\* INSERT INTO appointments (patient_id, doctor_id, appt_datetime, reason);
\* status takes its DEFAULT 'Scheduled'.
save_appointment(atab, patient_id, doctor_id, appt_datetime, reason) ==
    Append(atab, [patient_id |-> patient_id, doctor_id |-> doctor_id,
                  appt_datetime |-> appt_datetime, reason |-> reason,
                  status |-> "Scheduled"])

save_patient(ptab, name, age, gender, phone, address) ==
    Append(ptab, [name |-> name, age |-> age, gender |-> gender,
                  phone |-> phone, address |-> address])

---------------------------------------------------------------------------
(* Control layer.                                                          *)

\* AppointmentController.validate_datetime
validate_datetime(dt_str) ==
    IF strptime(dt_str).raised = "ValueError"
    THEN [ok |-> FALSE, msg |-> MsgDateTime]
    ELSE [ok |-> TRUE, msg |-> ""]

\* What a call leaves: its outcome, the appointments table after it, and
\* the tables on which it ran a query or a statement.
Result(ret, atab, touched) ==
    [ret |-> ret, appointments |-> atab, touched |-> touched]

\* schedule_appointment up to and including the availability check: the
\* outcome that ends the call early, or pass with the ids to insert.
schedule_checks(ptab, atab, patient_id, doctor_id, appt_datetime) ==
    LET Stop(ret, touched) ==
            [pass |-> FALSE, ret |-> ret, touched |-> touched, pid |-> 0, did |-> 0]
    IN
    IF ~isdigit(patient_id) THEN Stop(Return(FALSE, MsgPatientId), {})
    ELSE IF ~isdigit(doctor_id) THEN Stop(Return(FALSE, MsgDoctorId), {})
    ELSE IF int(patient_id).raised # "" THEN Stop(Raise(int(patient_id).raised), {})
    ELSE IF int(doctor_id).raised # "" THEN Stop(Raise(int(doctor_id).raised), {})
    ELSE
    LET p == get_patient_by_id(ptab, int(patient_id).val)
        d == get_doctor_by_id(int(doctor_id).val)
    IN
    IF p.raised # "" THEN Stop(Raise(p.raised), {"patients"})
    ELSE IF p.id = 0 THEN Stop(Return(FALSE, MsgPatientNotFound), {"patients"})
    ELSE IF d.raised # "" THEN Stop(Raise(d.raised), {"patients", "doctors"})
    ELSE IF d.id = 0
         THEN Stop(Return(FALSE, MsgDoctorNotFound), {"patients", "doctors"})
    ELSE IF ~validate_datetime(appt_datetime).ok
         THEN Stop(Return(FALSE, validate_datetime(appt_datetime).msg),
                   {"patients", "doctors"})
    ELSE IF ~is_doctor_available(atab, d.id, appt_datetime)
         THEN Stop(Return(FALSE, MsgNotAvailable),
                   {"patients", "doctors", "appointments"})
    ELSE [pass |-> TRUE, ret |-> NoRet,
          touched |-> {"patients", "doctors", "appointments"},
          pid |-> p.id, did |-> d.id]

\* schedule_appointment with reason.strip() forgotten: the reason is saved
\* as typed.
schedule_appointment_unstripped(ptab, atab, patient_id, doctor_id, appt_datetime, reason) ==
    LET c == schedule_checks(ptab, atab, patient_id, doctor_id, appt_datetime)
    IN  IF ~c.pass THEN Result(c.ret, atab, c.touched)
        ELSE Result(Return(TRUE, MsgScheduled),
                    save_appointment(atab, c.pid, c.did, appt_datetime, reason),
                    c.touched)

\* schedule_appointment with save_appointment placed before the
\* availability check: a call rejected for a taken slot has inserted its row.
schedule_appointment_insert_first(ptab, atab, patient_id, doctor_id, appt_datetime, reason) ==
    LET c == schedule_checks(ptab, <<>>, patient_id, doctor_id, appt_datetime)
    IN  IF ~c.pass THEN Result(c.ret, atab, c.touched)
        ELSE LET saved == save_appointment(atab, c.pid, c.did, appt_datetime,
                                           strip(reason))
             IN  IF ~is_doctor_available(atab, c.did, appt_datetime)
                 THEN Result(Return(FALSE, MsgNotAvailable), saved, c.touched)
                 ELSE Result(Return(TRUE, MsgScheduled), saved, c.touched)

\* AppointmentController.schedule_appointment
schedule_appointment(ptab, atab, patient_id, doctor_id, appt_datetime, reason) ==
    LET c == schedule_checks(ptab, atab, patient_id, doctor_id, appt_datetime)
    IN  IF ~c.pass THEN Result(c.ret, atab, c.touched)
        ELSE Result(Return(TRUE, MsgScheduled),
                    save_appointment(atab, c.pid, c.did, appt_datetime, strip(reason)),
                    c.touched)

\* age_int < 0 or age_int > 120, for the value int(age) gives
AgeOutOfRange(v) == Len(v) > 3 \/ DigitsNat(v) > 120

\* PatientController.validate_patient_data; int(age) may raise.
validate_patient_data(name, age, gender) ==
    IF strip(name) = <<>> THEN Return(FALSE, "Name is required.")
    ELSE IF ~isdigit(age) THEN Return(FALSE, "Age must be a number.")
    ELSE IF int(age).raised # "" THEN Raise(int(age).raised)
    ELSE IF AgeOutOfRange(int(age).val)
         THEN Return(FALSE, "Age must be between 0 and 120.")
    ELSE IF gender \notin {"Male", "Female"}
         THEN Return(FALSE, "Gender must be Male or Female.")
    ELSE Return(TRUE, "")

\* PatientController.register_patient: the outcome and table patients after.
register_patient(ptab, name, age, gender, phone, address) ==
    LET v == validate_patient_data(name, age, gender)
    IN  IF v.kind = "raise" \/ ~v.ok THEN [ret |-> v, patients |-> ptab]
        ELSE [ret |-> Return(TRUE, "Patient registered successfully."),
              patients |-> save_patient(ptab, strip(name), DigitsNat(int(age).val),
                                        gender, strip(phone), strip(address))]

\* AuthController.hash_password: SHA-256 of the password, taken as injective.
hash_password(password) == <<"sha256", password>>

\* setup_database: the default accounts, in table users.
users ==
    << [username |-> <<"a","d","m","i","n">>,
        password_hash |-> hash_password("admin123"), role |-> "admin"],
       [username |-> <<"r","e","c","e","p","t","i","o","n">>,
        password_hash |-> hash_password("recep123"), role |-> "receptionist"],
       [username |-> <<"d","o","c","t","o","r">>,
        password_hash |-> hash_password("doc123"), role |-> "doctor"] >>

NoUser == [user_id |-> 0, username |-> <<>>, role |-> "none"]

\* AuthController.login: the CurrentUser, or NoUser for None.
login(username, password) ==
    LET found == {i \in 1..Len(users) : users[i].username = username}
    IN  IF found = {} THEN NoUser
        ELSE LET i == CHOOSE i \in found : TRUE
             IN  IF hash_password(password) # users[i].password_hash THEN NoUser
                 ELSE [user_id |-> i, username |-> users[i].username,
                       role |-> users[i].role]

---------------------------------------------------------------------------
(* Bounds and the inputs typed at the prompts.                             *)

MaxPatients == 1
MaxAppointments == 2
NumCallers == 2

T_1 == <<"1">>
T_2 == <<"2">>
T_02 == <<"0", "2">>
T_9 == <<"9">>
T_x == <<"x">>
T_minus1 == <<"-", "1">>
T_sup2 == <<"SUP2">>
T_ar1 == <<"AR1">>
\* 9223372036854775808 = 2^63
T_big == <<"9","2","2","3","3","7","2","0","3","6","8","5","4","7","7","5","8","0","8">>

PatientIdTokens == {T_1, T_2, <<>>, T_sup2, T_ar1, T_big}
DoctorIdTokens == {T_2, T_02, T_9, T_minus1, T_sup2}

DT_2025_03_01 == <<"2","0","2","5","-","0","3","-","0","1"," ","1","0",":","0","0">>
DT_2025_3_1 == <<"2","0","2","5","-","3","-","1"," ","1","0",":","0","0">>
DT_leap == <<"2","0","2","4","-","0","2","-","2","9"," ","2","3",":","5","9">>
DT_feb30 == <<"2","0","2","4","-","0","2","-","3","0"," ","1","0",":","0","0">>
DT_slashes == <<"0","3","/","0","1","/","2","0","2","5"," ","1","0",":","0","0">>

DateTimeTokens == {DT_2025_03_01, DT_2025_3_1, DT_leap, DT_feb30, DT_slashes}

Reasons == {<<" ", "r", "TAB">>}

Names == {<<"A">>, <<" ">>}
Ages == {<<"3", "0">>, <<"1", "2", "1">>, T_x, T_sup2}
Genders == {"Male", "Other"}
Phones == {<<" ", "5">>}
Addresses == {<<>>}

Usernames == {<<"a","d","m","i","n">>, <<"r","e","c","e","p","t","i","o","n">>,
              <<" ","d","o","c","t","o","r">>, T_x}
Passwords == {"admin123", "recep123", "doc123"}

MenuChoices == {<<"1">>, <<" ", "2">>, <<"3">>, <<"4">>, <<"5">>, <<"0">>, T_9}
Answers == {<<"y">>, <<"Y", " ">>, <<"n">>}

\* str.lower()
lower(s) == [i \in 1..Len(s) |-> IF s[i] = "Y" THEN "y" ELSE s[i]]

---------------------------------------------------------------------------
(* UI layer: main(), LoginUI.show and ClinicMenuUI.                        *)

\* What the last operation was: its name, the strings given, its outcome,
\* the tables it queried, table appointments as it found it, and, for
\* schedule_appointment, whether the operation before it was the same call
\* with identical arguments that returned failure (with that outcome).
Call(op, args, ret, touched, before, repeat, prev) ==
    [op |-> op, args |-> args, ret |-> ret, touched |-> touched,
     before |-> before, repeat |-> repeat, prev |-> prev]

Event(op) == Call(op, <<>>, NoRet, {}, <<>>, FALSE, NoRet)

\* the role check with the doctor's role let through
allowed_any_staff(role) == role \in {"admin", "receptionist", "doctor"}

\* the role check of register_patient_flow and schedule_appointment_flow
allowed(role) == role \in {"admin", "receptionist"}

IdleProc == [pc |-> "idle", pid |-> 0, did |-> 0, appt_datetime |-> <<>>, reason |-> <<>>]

Init ==
    /\ patients = <<>>
    /\ appointments = <<>>
    /\ current_user = NoUser
    /\ ui = "login"
    /\ call = Event("main")
    /\ procs = [c \in 1..NumCallers |-> IdleProc]

\* main() run again on the same clinic.db, after Bye or after a crash.
Main ==
    /\ ui \in {"bye", "crashed"}
    /\ ui' = "login"
    /\ call' = Event("main")
    /\ current_user' = NoUser
    /\ UNCHANGED <<patients, appointments, procs>>

\* LoginUI.show, and main's branch on its result.
Login ==
    /\ ui = "login"
    /\ \E username \in Usernames, password \in Passwords :
        LET user == login(strip(username), password)
        IN  /\ current_user' = user
            /\ ui' = IF user = NoUser THEN "again" ELSE "menu"
            /\ call' = Event("login")
    /\ UNCHANGED <<patients, appointments, procs>>

\* main: "Login again? (y/n)"
LoginAgain ==
    /\ ui = "again"
    /\ \E again \in Answers :
        /\ ui' = IF lower(strip(again)) # <<"y">> THEN "bye" ELSE "login"
        /\ call' = Event("again")
    /\ UNCHANGED <<patients, appointments, current_user, procs>>

\* show_menu, choice "1": register_patient_flow
RegisterPatientFlow ==
    /\ ui = "menu"
    /\ \E choice \in MenuChoices :
        /\ strip(choice) = <<"1">>
        /\ IF ~allowed(current_user.role)
           THEN /\ call' = Event("register_patient_flow: access denied")
                /\ UNCHANGED <<patients, ui, current_user>>
           ELSE \E name \in Names, age \in Ages, gender \in Genders,
                   phone \in Phones, address \in Addresses :
                \E r \in {register_patient(patients, name, age, gender, phone, address)} :
                    /\ Len(r.patients) <= MaxPatients
                    /\ patients' = r.patients
                    /\ call' = Call("register_patient", <<name, age, gender, phone, address>>,
                                    r.ret, {}, <<>>, FALSE, NoRet)
                    /\ ui' = IF r.ret.kind = "raise" THEN "crashed" ELSE ui
                    /\ current_user' = IF r.ret.kind = "raise" THEN NoUser
                                       ELSE current_user
    /\ UNCHANGED <<appointments, procs>>

\* show_menu, choice "2": schedule_appointment_flow up to its last prompt.
\* The flow blocks at each input(); the four strings typed are call.args.
ScheduleAppointmentFlow ==
    /\ ui = "menu"
    /\ \E choice \in MenuChoices :
        /\ strip(choice) = <<"2">>
        /\ IF ~allowed(current_user.role)
           THEN /\ call' = Event("schedule_appointment_flow: access denied")
                /\ ui' = ui
           ELSE \E patient_id \in PatientIdTokens, doctor_id \in DoctorIdTokens,
                   appt_datetime \in DateTimeTokens, reason \in Reasons :
                LET args == <<patient_id, doctor_id, appt_datetime, reason>>
                    repeat == /\ call.op = "schedule_appointment"
                              /\ call.args = args
                              /\ call.ret.kind = "return"
                              /\ ~call.ret.ok
                IN  /\ call' = Call("schedule_appointment_flow", args, NoRet, {},
                                    <<>>, repeat, IF repeat THEN call.ret ELSE NoRet)
                    /\ ui' = "schedule"
    /\ UNCHANGED <<patients, appointments, current_user, procs>>

\* schedule_appointment_flow: the call of
\* AppointmentController.schedule_appointment with the strings typed, and
\* the return to show_menu; an exception ends the program.
ScheduleAppointment ==
    /\ ui = "schedule"
    /\ \E r \in {schedule_appointment(patients, appointments, call.args[1],
                                     call.args[2], call.args[3], call.args[4])} :
        /\ Len(r.appointments) <= MaxAppointments
        /\ appointments' = r.appointments
        /\ call' = Call("schedule_appointment", call.args, r.ret, r.touched,
                        appointments, call.repeat, call.prev)
        /\ ui' = IF r.ret.kind = "raise" THEN "crashed" ELSE "menu"
        /\ current_user' = IF r.ret.kind = "raise" THEN NoUser ELSE current_user
    /\ UNCHANGED <<patients, procs>>

\* show_menu, choices "3", "4", "5": the listings only read.
ListFlow ==
    /\ ui = "menu"
    /\ \E choice \in MenuChoices :
        /\ strip(choice) \in {<<"3">>, <<"4">>, <<"5">>}
        /\ call' = Event(IF strip(choice) = <<"3">> THEN "list_patients_flow"
                         ELSE IF strip(choice) = <<"4">> THEN "list_doctors_flow"
                         ELSE "list_appointments_flow")
    /\ UNCHANGED <<patients, appointments, current_user, ui, procs>>

\* show_menu, choice "0": back to main's "Login again?"
Logout ==
    /\ ui = "menu"
    /\ \E choice \in MenuChoices :
        /\ strip(choice) = <<"0">>
        /\ ui' = "again"
        /\ current_user' = NoUser
        /\ call' = Event("logout")
    /\ UNCHANGED <<patients, appointments, procs>>

\* show_menu, any other choice
InvalidChoice ==
    /\ ui = "menu"
    /\ \E choice \in MenuChoices :
        /\ strip(choice) \notin {<<"0">>, <<"1">>, <<"2">>, <<"3">>, <<"4">>, <<"5">>}
        /\ call' = Event("invalid choice")
    /\ UNCHANGED <<patients, appointments, current_user, ui, procs>>

Next ==
    \/ Main
    \/ Login
    \/ LoginAgain
    \/ RegisterPatientFlow
    \/ ScheduleAppointmentFlow
    \/ ScheduleAppointment
    \/ ListFlow
    \/ Logout
    \/ InvalidChoice

Spec == Init /\ [][Next]_vars

---------------------------------------------------------------------------
(* Several sessions of the program on one clinic.db.  Every repository    *)
(* call is its own connection and transaction (BaseRepository.fetchone,   *)
(* BaseRepository.execute), so between the availability query and the     *)
(* INSERT of one session another session's calls can run.                  *)

ConcPatientIdTokens == {T_1, T_2}
ConcDoctorIdTokens == {T_1, T_2, T_02, T_9}
ConcDateTimeTokens == {DT_2025_03_01, DT_leap, DT_feb30}

\* One patient registered, no appointment, the registering session ended.
InitConc ==
    /\ patients = <<[name |-> <<"A">>, age |-> 30, gender |-> "Male",
                     phone |-> <<"5">>, address |-> <<>>]>>
    /\ appointments = <<>>
    /\ current_user = NoUser
    /\ ui = "bye"
    /\ call = Event("again")
    /\ procs = [c \in 1..NumCallers |-> IdleProc]

\* schedule_appointment of session c, through is_doctor_available.
ConcCheck(c) ==
    /\ procs[c].pc = "idle"
    /\ \E patient_id \in ConcPatientIdTokens, doctor_id \in ConcDoctorIdTokens,
          appt_datetime \in ConcDateTimeTokens, reason \in Reasons :
        \E k \in {schedule_checks(patients, appointments, patient_id, doctor_id,
                                   appt_datetime)} :
            procs' = IF k.pass
                     THEN [procs EXCEPT ![c] =
                            [pc |-> "insert", pid |-> k.pid, did |-> k.did,
                             appt_datetime |-> appt_datetime, reason |-> strip(reason)]]
                     ELSE procs
    /\ UNCHANGED <<patients, appointments, current_user, ui, call>>

\* schedule_appointment of session c: save_appointment, and the return.
ConcInsert(c) ==
    /\ procs[c].pc = "insert"
    /\ Len(appointments) < MaxAppointments
    /\ appointments' = save_appointment(appointments, procs[c].pid, procs[c].did,
                                        procs[c].appt_datetime, procs[c].reason)
    /\ procs' = [procs EXCEPT ![c] = IdleProc]
    /\ UNCHANGED <<patients, current_user, ui, call>>

NextConc == \E c \in 1..NumCallers : ConcCheck(c) \/ ConcInsert(c)

SpecConc == InitConc /\ [][NextConc]_vars

---------------------------------------------------------------------------
(* What the specification's sentences mean, stated apart from the code.    *)

\* The token is made of the decimal digits 0-9 only, and is not empty.
AsciiDigitToken(t) == t # <<>> /\ \A i \in 1..Len(t) : t[i] \in AsciiDigits

\* The token is a numeral of the positive integer id.
Denotes(t, id) ==
    /\ AsciiDigitToken(t)
    /\ DropLeadingZeros([i \in 1..Len(t) |-> DigitValue(t[i])]) = NatDigits(id)

PatientExists(t) == \E id \in 1..Len(patients) : Denotes(t, id)
DoctorExists(t) == \E id \in 1..Len(doctors) : Denotes(t, id)

TwoDigits(t, i) == 10 * DigitValue(t[i]) + DigitValue(t[i + 1])

\* YYYY-MM-DD HH:MM, zero-padded, one space, with real calendar fields.
StrictDateTime(t) ==
    /\ Len(t) = 16
    /\ \A i \in {1, 2, 3, 4, 6, 7, 9, 10, 12, 13, 15, 16} : t[i] \in AsciiDigits
    /\ t[5] = "-" /\ t[8] = "-" /\ t[11] = " " /\ t[14] = ":"
    /\ TwoDigits(t, 6) \in 1..12
    /\ TwoDigits(t, 9) \in 1..DaysInMonth(100 * TwoDigits(t, 1) + TwoDigits(t, 3),
                                          TwoDigits(t, 6))
    /\ TwoDigits(t, 12) \in 0..23
    /\ TwoDigits(t, 15) \in 0..59

\* The timestamp a stored or typed datetime string denotes.
TimestampOf(t) == strptime(t).value

Scheduled(tab, d, ts) ==
    {i \in 1..Len(tab) : /\ tab[i].status = "Scheduled"
                         /\ tab[i].doctor_id = d
                         /\ TimestampOf(tab[i].appt_datetime) = ts}

ScheduleCalled == call.op = "schedule_appointment"
Rejected == call.ret.kind = "return" /\ ~call.ret.ok
Succeeded == call.ret.kind = "return" /\ call.ret.ok

FailureMessages ==
    {MsgPatientId, MsgDoctorId, MsgPatientNotFound, MsgDoctorNotFound,
     MsgDateTime, MsgNotAvailable}

\* The token is a numeral, in decimal digits of any script, of the integer id.
Numeral(t, id) ==
    /\ t # <<>>
    /\ \A i \in 1..Len(t) : IsDecimalChar(t[i])
    /\ DropLeadingZeros([i \in 1..Len(t) |-> DigitValue(t[i])]) = NatDigits(id)

\* The checks of schedule_appointment that the arguments of the last call
\* violate, by number, against the tables the call found: (1), (2) the id
\* is not a number as the code tests it, (3), (4) it is the id of no row,
\* (5) the datetime is not accepted, (6) the doctor's slot is taken.
ViolatedChecks ==
    LET p == call.args[1]
        d == call.args[2]
        t == call.args[3]
    IN  {k \in 1..6 :
            CASE k = 1 -> ~isdigit(p)
              [] k = 2 -> ~isdigit(d)
              [] k = 3 -> isdigit(p) /\ ~\E id \in 1..Len(patients) : Numeral(p, id)
              [] k = 4 -> isdigit(d) /\ ~\E id \in 1..Len(doctors) : Numeral(d, id)
              [] k = 5 -> strptime(t).raised # ""
              [] k = 6 -> /\ strptime(t).raised = ""
                          /\ \E id \in 1..Len(doctors) :
                                /\ Numeral(d, id)
                                /\ \E i \in 1..Len(call.before) :
                                    /\ call.before[i].status = "Scheduled"
                                    /\ call.before[i].doctor_id = id
                                    /\ call.before[i].appt_datetime = t}

CheckMessage(k) ==
    CASE k = 1 -> MsgPatientId [] k = 2 -> MsgDoctorId
      [] k = 3 -> MsgPatientNotFound [] k = 4 -> MsgDoctorNotFound
      [] k = 5 -> MsgDateTime [] k = 6 -> MsgNotAvailable

\* stored is given without its surrounding whitespace.
IsStripped(stored, given) ==
    /\ stored = <<>> \/ (~IsSpaceChar(stored[1]) /\ ~IsSpaceChar(stored[Len(stored)]))
    /\ \E a \in 0..Len(given), b \in 0..Len(given) :
        /\ a + Len(stored) + b = Len(given)
        /\ \A i \in 1..Len(given) :
            IF i <= a \/ i > a + Len(stored) THEN IsSpaceChar(given[i])
            ELSE given[i] = stored[i - a]

---------------------------------------------------------------------------
(* The claims.                                                             *)

\* C1: after any sequence of schedule_appointment calls from an empty
\* store, no doctor has two Scheduled appointments at the same timestamp
\* (the date and time the stored string denotes, whatever its spelling).
C1_NoDoubleBooking ==
    \A i, j \in 1..Len(appointments) :
        ( /\ i # j
          /\ appointments[i].status = "Scheduled"
          /\ appointments[j].status = "Scheduled"
          /\ appointments[i].doctor_id = appointments[j].doctor_id )
        => TimestampOf(appointments[i].appt_datetime)
              # TimestampOf(appointments[j].appt_datetime)

\* C2: when the arguments violate several of the six checks at once, the
\* call returns failure with the message of the lowest-numbered one.
C2_FirstViolatedCheckReported ==
    (ScheduleCalled /\ Cardinality(ViolatedChecks) >= 2)
    => call.ret = Return(FALSE,
                         CheckMessage(CHOOSE k \in ViolatedChecks :
                                        \A m \in ViolatedChecks : k <= m))

\* C3: once doctor D has a Scheduled appointment at timestamp T, a call
\* naming an existing patient, doctor D and timestamp T returns failure with
\* the availability message and the slot still holds exactly one record.
C3_TakenSlotRejected ==
    \A id \in 1..Len(doctors) :
        ( /\ ScheduleCalled
          /\ PatientExists(call.args[1])
          /\ Denotes(call.args[2], id)
          /\ strptime(call.args[3]).raised = ""
          /\ Scheduled(call.before, id, TimestampOf(call.args[3])) # {} )
        => /\ call.ret = Return(FALSE, MsgNotAvailable)
           /\ Cardinality(Scheduled(appointments, id, TimestampOf(call.args[3]))) = 1

\* C4: with ids of an existing patient and an existing doctor, the call
\* returns the date/time format error exactly for the datetime strings that
\* are not YYYY-MM-DD HH:MM with real calendar fields.
C4_DateTimeFormatEnforced ==
    (ScheduleCalled /\ PatientExists(call.args[1]) /\ DoctorExists(call.args[2]))
    => (call.ret = Return(FALSE, MsgDateTime) <=> ~StrictDateTime(call.args[3]))

\* C5: whatever the four strings, the call ends by returning success or a
\* failure carrying one of the fixed messages, never in an exception.
C5_AlwaysReturnsAResult ==
    ScheduleCalled
    => /\ call.ret.kind = "return"
       /\ call.ret.ok \/ call.ret.msg \in FailureMessages

\* C6: when the patient id or the doctor id is not made of the decimal
\* digits 0-9 only, the call returns failure with the identifier-format
\* message of the first such id and has queried or changed no table.
C6_NonDigitIdRejectedBeforeStore ==
    (ScheduleCalled
        /\ (~AsciiDigitToken(call.args[1]) \/ ~AsciiDigitToken(call.args[2])))
    => /\ call.ret = Return(FALSE, IF ~AsciiDigitToken(call.args[1])
                                   THEN MsgPatientId ELSE MsgDoctorId)
       /\ call.touched = {}
       /\ appointments = call.before

\* C7: with sessions running schedule_appointment concurrently on one
\* database, no doctor has two Scheduled appointments whose datetime is the
\* same (here: the same string, which is the same timestamp).
C7_NoDoubleBookingConcurrent ==
    \A i, j \in 1..Len(appointments) :
        ( /\ i # j
          /\ appointments[i].status = "Scheduled"
          /\ appointments[j].status = "Scheduled"
          /\ appointments[i].doctor_id = appointments[j].doctor_id )
        => appointments[i].appt_datetime # appointments[j].appt_datetime

\* C8: a call that returns success has added exactly one record (the parsed
\* patient and doctor ids, the datetime as given, the reason without its
\* surrounding whitespace, status Scheduled); any other call has added
\* nothing; the records that were there are unchanged, and every record's
\* status is Scheduled.
C8_AddsOneRecordOrNothing ==
    /\ \A i \in 1..Len(appointments) : appointments[i].status = "Scheduled"
    /\ ScheduleCalled =>
        IF Succeeded
        THEN /\ Len(appointments) = Len(call.before) + 1
             /\ SubSeq(appointments, 1, Len(call.before)) = call.before
             /\ LET rec == appointments[Len(appointments)]
                IN  /\ DropLeadingZeros([i \in 1..Len(call.args[1]) |->
                                           DigitValue(call.args[1][i])])
                          = NatDigits(rec.patient_id)
                    /\ DropLeadingZeros([i \in 1..Len(call.args[2]) |->
                                           DigitValue(call.args[2][i])])
                          = NatDigits(rec.doctor_id)
                    /\ rec.appt_datetime = call.args[3]
                    /\ IsStripped(rec.reason, call.args[4])
                    /\ rec.status = "Scheduled"
        ELSE appointments = call.before

C8_Witness ==
    /\ ScheduleCalled
    /\ Succeeded
    /\ Len(call.before) >= 1
    /\ IsSpaceChar(call.args[4][1])
    /\ call.args[2] = T_02

\* C9: a rejected call has created no record, and the identical call made
\* right after a rejected call returns the identical failure and creates no
\* record either.
C9_RejectionIdempotent ==
    /\ (ScheduleCalled /\ Rejected) => appointments = call.before
    /\ (ScheduleCalled /\ call.repeat)
        => /\ call.ret = call.prev
           /\ appointments = call.before

C9_Witness ==
    /\ ScheduleCalled
    /\ call.repeat
    /\ call.ret = Return(FALSE, MsgNotAvailable)
    /\ Len(appointments) >= 1

\* C10: while the logged-in user's role is neither admin nor receptionist,
\* no menu choice reaches register_patient or schedule_appointment, and
\* tables patients and appointments stay as they are.
C10_DoctorSessionChangesNothing ==
    [][ (ui = "menu" /\ current_user.role \notin {"admin", "receptionist"})
        => /\ patients' = patients
           /\ appointments' = appointments
           /\ call'.op \notin {"register_patient", "schedule_appointment_flow",
                               "schedule_appointment"} ]_vars

C10_Witness ==
    /\ current_user.role = "doctor"
    /\ ui = "menu"
    /\ call.op = "schedule_appointment_flow: access denied"

===========================================================================
